---- MODULE Spec2Model ----
(***************************************************************************)
(* Model of test-resources.py, the resource verification script of the     *)
(* Turkey Water Risk Atlas: six checks over the docs/ tree and a local web *)
(* server, run in order by main(), which prints a summary and returns an   *)
(* exit code.                                                              *)
(*                                                                         *)
(* The state is the environment the script reads (the docs/ tree, the web  *)
(* server, whether the requests library can be imported) and the position  *)
(* and accumulated results of one run of main().  The environment changes  *)
(* only between runs.                                                      *)
(***************************************************************************)
EXTENDS Integers, Sequences, FiniteSets, TLC

\* Bounds of the model (not program constants).
MaxEdits == 2

(***************************************************************************)
(* Python values.  True / False / None as returned by the check functions. *)
(***************************************************************************)
PyTrue  == "True"
PyFalse == "False"
PyNone  == "None"

(***************************************************************************)
(* JSON scalars as the json module decodes them: an absent key, null, an   *)
(* int, a float (kept in tenths) or a str (a sequence of characters).      *)
(***************************************************************************)
Absent      == [t |-> "absent", n |-> 0, s |-> <<>>]
Null        == [t |-> "null",   n |-> 0, s |-> <<>>]
IntVal(k)   == [t |-> "int",    n |-> k, s |-> <<>>]
FloatVal(k) == [t |-> "float",  n |-> k, s |-> <<>>]
StrVal(cs)  == [t |-> "str",    n |-> 0, s |-> cs]

\* ---------------------------------------------------------------- int()
Digits == <<"0", "1", "2", "3", "4", "5", "6", "7", "8", "9">>

IsDigit(c) == \E d \in 1..Len(Digits) : Digits[d] = c

DigitValue(c) == (CHOOSE d \in 1..Len(Digits) : Digits[d] = c) - 1

RECURSIVE StripLeft(_)
StripLeft(cs) ==
    IF cs # <<>> /\ Head(cs) = " " THEN StripLeft(Tail(cs)) ELSE cs

RECURSIVE StripRight(_)
StripRight(cs) ==
    IF cs # <<>> /\ cs[Len(cs)] = " "
    THEN StripRight(SubSeq(cs, 1, Len(cs) - 1))
    ELSE cs

RECURSIVE DigitsValue(_, _)
DigitsValue(cs, acc) ==
    IF cs = <<>> THEN acc
    ELSE DigitsValue(Tail(cs), 10 * acc + DigitValue(Head(cs)))

\* int(str): surrounding blanks, an optional sign, then decimal digits only.
ParseInt(cs) ==
    LET body   == StripRight(StripLeft(cs))
        signed == body # <<>> /\ Head(body) \in {"-", "+"}
        digs   == IF signed THEN Tail(body) ELSE body
        ok     == digs # <<>> /\ \A i \in 1..Len(digs) : IsDigit(digs[i])
    IN  IF ~ok THEN [raised |-> TRUE, value |-> 0]
        ELSE [raised |-> FALSE,
              value  |-> IF signed /\ Head(body) = "-"
                         THEN 0 - DigitsValue(digs, 0)
                         ELSE DigitsValue(digs, 0)]

\* float -> int truncates toward zero (the float is kept in tenths).
Truncate(tenths) ==
    IF tenths >= 0 THEN tenths \div 10 ELSE 0 - ((0 - tenths) \div 10)

\* int(metadata.get(key, 0)): the default 0 for an absent key, TypeError for
\* None, ValueError for a str that is no integer literal.
PyInt(v) ==
    CASE v.t = "absent" -> [raised |-> FALSE, value |-> 0]
      [] v.t = "null"   -> [raised |-> TRUE,  value |-> 0]
      [] v.t = "int"    -> [raised |-> FALSE, value |-> v.n]
      [] v.t = "float"  -> [raised |-> FALSE, value |-> Truncate(v.n)]
      [] v.t = "str"    -> ParseInt(v.s)

(***************************************************************************)
(* The docs/ tree.                                                         *)
(*   access   docs/ can be searched (stat and open below it succeed)       *)
(*   index    docs/index.html exists                                       *)
(*   tilesDir docs/tiles_catchments exists                                 *)
(*   meta     docs/tiles_catchments/metadata.json: its state and, when it  *)
(*            holds a JSON object, the decoded document                    *)
(*   geo      the state of each file under docs/data_web                   *)
(*   tiles    the .pbf files below docs/tiles_catchments                   *)
(***************************************************************************)
IndexHtml    == "docs/index.html"
MetadataJson == "docs/tiles_catchments/metadata.json"
Provinces    == "docs/data_web/turkey_provinces_web.geojson"
Rivers       == "docs/data_web/hydrorivers_tr_web_final.geojson"
Lakes        == "docs/data_web/hydrolakes_tr_web.geojson"

required_files == <<IndexHtml, MetadataJson, Provinces, Rivers, Lakes>>

geojson_files == <<Provinces, Rivers, Lakes>>

\* A tile file: its path and the zoom directory the path names.
Tile(zoom, path) == [zoom |-> zoom, path |-> path]

sample_tiles ==
    << Tile(<<"4">>, "docs/tiles_catchments/4/10/6.pbf"),
       Tile(<<"6">>, "docs/tiles_catchments/6/36/23.pbf"),
       Tile(<<"8">>, "docs/tiles_catchments/8/146/95.pbf"),
       Tile(<<"1", "0">>, "docs/tiles_catchments/10/604/401.pbf") >>

\* A tile of the tree that is not one of the sampled ones.
OtherTile == Tile(<<"1", "0">>, "docs/tiles_catchments/10/605/401.pbf")

ExpectedLayerId == "aqueduct_baseline_annual_tr_web"

SeqRange(q) == {q[i] : i \in 1..Len(q)}

AllTiles == SeqRange(sample_tiles) \cup {OtherTile}

\* States of a .geojson file: absent, unreadable, not JSON, a JSON object
\* without 'type', or a JSON object with the 'type' named.
GeoStates ==
    {"missing", "unreadable", "garbage", "notype",
     "Polygon", "Feature", "FeatureCollection"}

\* The embedded layer descriptor, metadata['json'].
\*   k  = "absent"  no 'json' key
\*        "number"  the value is not a str (json.loads raises TypeError)
\*        "garbage" a str that is not JSON
\*        "array"   a str encoding a JSON array
\*        "object"  a str encoding a JSON object, vl its 'vector_layers'
\*   vl = [k |-> "absent" | "null" | "number" | "list", items |-> ...]
\*   an item is a JSON object with or without an 'id', or a JSON string.
LayerObj(id)   == [k |-> "object", has |-> TRUE,  id |-> id]
LayerNoId      == [k |-> "object", has |-> FALSE, id |-> ""]
LayerString    == [k |-> "string", has |-> FALSE, id |-> ""]

JsonField(k, vk, items) == [k |-> k, vl |-> [k |-> vk, items |-> items]]

GoodJson == JsonField("object", "list", <<LayerObj(ExpectedLayerId)>>)

GoodDoc ==
    [ name    |-> TRUE,
      format  |-> StrVal(<<"p", "b", "f">>),
      minzoom |-> IntVal(4),
      maxzoom |-> IntVal(10),
      json    |-> GoodJson ]

\* The layout the script was written for: everything in place.
GoodTree ==
    [ access   |-> TRUE,
      index    |-> TRUE,
      tilesDir |-> TRUE,
      meta     |-> [st |-> "object", doc |-> GoodDoc],
      geo      |-> [p \in SeqRange(geojson_files) |-> "FeatureCollection"],
      tiles    |-> AllTiles ]

\* ------------------------------------------------------- os and json calls
\* The state of the file at path p.
FileState(fs, p) ==
    CASE p = IndexHtml    -> IF fs.index THEN "present" ELSE "missing"
      [] p = MetadataJson -> fs.meta.st
      [] OTHER            -> fs.geo[p]

\* os.path.exists: False for a path that is absent or cannot be reached.
PathExists(fs, p) == fs.access /\ FileState(fs, p) # "missing"

TileExists(fs, t) == fs.access /\ fs.tilesDir /\ t \in fs.tiles

\* open(p, 'r') raises OSError.
OpenRaises(fs, p) ==
    ~fs.access \/ FileState(fs, p) \in {"missing", "unreadable"}

\* json.load(f) raises JSONDecodeError.
LoadRaises(fs, p) == FileState(fs, p) = "garbage"

(***************************************************************************)
(* The checks.  Each returns what the function returns (ret), whether an   *)
(* exception left it (raised), the result lines it printed and the number  *)
(* of HTTP requests it issued.                                             *)
(***************************************************************************)
Line(check, item, text, ok) ==
    [check |-> check, item |-> item, text |-> text, ok |-> ok]

Outcome(ret, lines) ==
    [ret |-> ret, raised |-> FALSE, lines |-> lines, gets |-> 0]

PyBool(b) == IF b THEN PyTrue ELSE PyFalse

\* -------------------------------------------------------- test_local_files
test_local_files_always_true(fs) ==
    Outcome(PyTrue, <<Line("Local Files", "", "All required files exist", TRUE)>>)

test_local_files(fs) ==
    LET missing_files == SelectSeq(required_files, LAMBDA p : ~PathExists(fs, p))
    IN  IF missing_files # <<>>
        THEN Outcome(PyFalse,
                 [i \in 1..Len(missing_files) |->
                      Line("Local Files", missing_files[i], "Missing", FALSE)])
        ELSE Outcome(PyTrue,
                 <<Line("Local Files", "", "All required files exist", TRUE)>>)

\* ------------------------------------------------- test_metadata_structure
\* vector_layers after the inner try: None, a number or a list.
VectorLayers(json) ==
    CASE json.k \in {"absent", "number", "garbage", "array"} ->
             [k |-> "None", items |-> <<>>]
      [] json.vl.k = "absent" -> [k |-> "list", items |-> <<>>]
      [] json.vl.k = "null"   -> [k |-> "None", items |-> <<>>]
      [] json.vl.k = "number" -> [k |-> "number", items |-> <<>>]
      [] OTHER                -> [k |-> "list", items |-> json.vl.items]

MetadataError ==
    Outcome(PyFalse,
            <<Line("Metadata Structure", "", "Error reading metadata", FALSE)>>)

\* The basic_checks list: (check, description) pairs on the top-level keys.
basic_checks_no_name(metadata) ==
    << Line("Metadata Structure", "format", "Format is 'pbf'",
            metadata.format = StrVal(<<"p", "b", "f">>)),
       Line("Metadata Structure", "minzoom", "Min zoom is 4",
            PyInt(metadata.minzoom).value = 4),
       Line("Metadata Structure", "maxzoom", "Max zoom is 10",
            PyInt(metadata.maxzoom).value = 10) >>

basic_checks(metadata) ==
    << Line("Metadata Structure", "name", "Has name field", metadata.name),
       Line("Metadata Structure", "format", "Format is 'pbf'",
            metadata.format = StrVal(<<"p", "b", "f">>)),
       Line("Metadata Structure", "minzoom", "Min zoom is 4",
            PyInt(metadata.minzoom).value = 4),
       Line("Metadata Structure", "maxzoom", "Max zoom is 10",
            PyInt(metadata.maxzoom).value = 10) >>

\* The layer_checks list, for vector_layers a list.
layer_checks(vector_layers) ==
    << Line("Metadata Structure", "vector_layers", "Has vector layers in JSON",
            vector_layers.k = "list" /\ Len(vector_layers.items) > 0),
       Line("Metadata Structure", "layer_id", "Correct layer ID",
            /\ vector_layers.k = "list"
            /\ Len(vector_layers.items) > 0
            /\ vector_layers.items[1].has
            /\ vector_layers.items[1].id = ExpectedLayerId) >>

test_metadata_structure(fs) ==
    IF OpenRaises(fs, MetadataJson) \/ LoadRaises(fs, MetadataJson)
    THEN MetadataError
    ELSE IF fs.meta.st # "object"
    THEN MetadataError                     \* metadata.get: AttributeError
    ELSE
    LET metadata == fs.meta.doc
        minzoom  == PyInt(metadata.minzoom)
        maxzoom  == PyInt(metadata.maxzoom)
        vector_layers == VectorLayers(metadata.json)
        all_checks == basic_checks(metadata) \o layer_checks(vector_layers)
        passed == Cardinality({i \in 1..Len(all_checks) : all_checks[i].ok})
    IN  IF \/ minzoom.raised \/ maxzoom.raised          \* int(): TypeError, ValueError
           \/ vector_layers.k = "number"                \* len(): TypeError
           \/ /\ vector_layers.k = "list"               \* str.get: AttributeError
              /\ Len(vector_layers.items) > 0
              /\ vector_layers.items[1].k # "object"
        THEN MetadataError
        ELSE Outcome(PyBool(passed = Len(all_checks)), all_checks)

\* ------------------------------------------------------ test_geojson_files
\* One iteration of the loop: the line printed for file_path.
GeoLine(fs, file_path) ==
    LET st == FileState(fs, file_path)
    IN  IF OpenRaises(fs, file_path) \/ LoadRaises(fs, file_path)
        THEN Line("GeoJSON Files", file_path, "Error", FALSE)
        ELSE IF st \in {"FeatureCollection", "Feature"}
        THEN Line("GeoJSON Files", file_path, "Valid GeoJSON", TRUE)
        ELSE Line("GeoJSON Files", file_path, "Invalid GeoJSON structure", FALSE)

RECURSIVE GeoLoopStopsAtError(_, _, _)
GeoLoopStopsAtError(fs, files, acc) ==
    IF files = <<>> \/ ~acc.all_valid THEN acc
    ELSE LET line == GeoLine(fs, Head(files))
         IN  GeoLoopStopsAtError(fs, Tail(files),
                     [all_valid |-> acc.all_valid /\ line.ok,
                      lines     |-> Append(acc.lines, line)])

RECURSIVE GeoLoop(_, _, _)
GeoLoop(fs, files, acc) ==
    IF files = <<>> THEN acc
    ELSE LET line == GeoLine(fs, Head(files))
         IN  GeoLoop(fs, Tail(files),
                     [all_valid |-> acc.all_valid /\ line.ok,
                      lines     |-> Append(acc.lines, line)])

test_geojson_files(fs) ==
    LET done == GeoLoop(fs, geojson_files, [all_valid |-> TRUE, lines |-> <<>>])
    IN  Outcome(PyBool(done.all_valid), done.lines)

\* -------------------------------------------------------- test_sample_tiles
test_sample_tiles(fs) ==
    LET lines == [i \in 1..Len(sample_tiles) |->
                     IF TileExists(fs, sample_tiles[i])
                     THEN Line("Sample Tiles", sample_tiles[i].path, "bytes", TRUE)
                     ELSE Line("Sample Tiles", sample_tiles[i].path, "Missing", FALSE)]
        existing_tiles == Cardinality({i \in 1..Len(lines) : lines[i].ok})
    IN  Outcome(PyBool(existing_tiles = Len(sample_tiles)), lines)

\* -------------------------------------------------------------- count_tiles
\* Order of str keys under sorted(): character by character, a proper prefix
\* first.  Zoom directories are named by digits.
RECURSIVE StrLess(_, _)
StrLess(a, b) ==
    IF a = <<>> THEN b # <<>>
    ELSE IF b = <<>> THEN FALSE
    ELSE IF Head(a) = Head(b) THEN StrLess(Tail(a), Tail(b))
    ELSE DigitValue(Head(a)) < DigitValue(Head(b))

RECURSIVE Sorted(_)
Sorted(keys) ==
    IF keys = {} THEN <<>>
    ELSE LET least == CHOOSE k \in keys : \A o \in keys \ {k} : StrLess(k, o)
         IN  <<least>> \o Sorted(keys \ {least})

count_tiles_skips(fs, stat_raises) ==
    IF ~fs.access \/ ~fs.tilesDir
    THEN Outcome(PyNone,
             <<Line("Tile Count", "", "tiles_catchments directory not found", FALSE)>>)
    ELSE Outcome(PyBool(Cardinality(fs.tiles) > 0),
             <<Line("Tile Count", "", "Total tile files", Cardinality(fs.tiles) > 0)>>)

\* stat_raises: Path.exists() lets the PermissionError of stat() through
\* (pathlib before Python 3.13) instead of answering False.
count_tiles(fs, stat_raises) ==
    IF ~fs.access /\ stat_raises
    THEN [ret |-> PyFalse, raised |-> TRUE, lines |-> <<>>, gets |-> 0]
    ELSE IF ~fs.access \/ ~fs.tilesDir
    THEN Outcome(PyFalse,
             <<Line("Tile Count", "", "tiles_catchments directory not found", FALSE)>>)
    ELSE
    LET pbf_files   == fs.tiles
        zoom_counts == [z \in {t.zoom : t \in pbf_files} |->
                            Cardinality({t \in pbf_files : t.zoom = z})]
        zooms       == Sorted(DOMAIN zoom_counts)
    IN  Outcome(PyBool(Cardinality(pbf_files) > 0),
            <<Line("Tile Count", "", "Total tile files", Cardinality(pbf_files) > 0)>>
            \o [i \in 1..Len(zooms) |->
                  Line("Tile Count", "zoom", "tiles", zoom_counts[zooms[i]] > 0)])

\* ---------------------------------------------------------- test_web_server
\* What the server at base_url does with a GET: it answers with a status
\* code, refuses the connection, or does not answer within the timeout.
Responds(code) == [answer |-> "response", status_code |-> code]
Refuses        == [answer |-> "refused",  status_code |-> 0]
TimesOut       == [answer |-> "timeout",  status_code |-> 0]

StatusOk == 200

ServerStates ==
    {Responds(StatusOk), Responds(404), Refuses, TimesOut}

\* requests.get(base_url, timeout=5): a response, or ConnectionError / Timeout.
RequestsGet(server) ==
    [raised |-> server.answer # "response", status_code |-> server.status_code]

test_web_server_fails_on_error(has_requests, server) ==
    IF ~has_requests
    THEN Outcome(PyNone, <<Line("Web Server", "", "skipped", TRUE)>>)
    ELSE [ret |-> IF RequestsGet(server).raised THEN PyFalse
                  ELSE PyBool(RequestsGet(server).status_code = StatusOk),
          raised |-> FALSE, gets |-> 1,
          lines |-> <<Line("Web Server", "", "error", FALSE)>>]

test_web_server(has_requests, server) ==
    IF ~has_requests
    THEN Outcome(PyNone, <<Line("Web Server", "", "skipped", TRUE)>>)
    ELSE
    LET response == RequestsGet(server)
    IN  IF response.raised
        THEN [ret |-> PyNone, raised |-> FALSE, gets |-> 1,
              lines |-> <<Line("Web Server", "", "not accessible", FALSE)>>]
        ELSE IF response.status_code = StatusOk
        THEN [ret |-> PyTrue, raised |-> FALSE, gets |-> 1,
              lines |-> <<Line("Web Server", "", "responding", TRUE)>>]
        ELSE [ret |-> PyFalse, raised |-> FALSE, gets |-> 1,
              lines |-> <<Line("Web Server", "", "error", FALSE)>>]

(***************************************************************************)
(* main()                                                                  *)
(***************************************************************************)
VARIABLES
    fs,            \* the docs/ tree
    server,        \* what the server at http://localhost:8000 does with a GET
    HAS_REQUESTS,  \* the import of requests succeeded
    pc,            \* "ready": no run yet or the tree changed since the last one;
                   \* "loop": main() is in its loop over tests (or about to
                   \* print the summary); "done": main() returned;
                   \* "aborted": an exception left main()
    results,       \* main()'s list of (test_name, result)
    raised,        \* for each entry of results, whether the test raised
    printed,       \* the result lines printed by the tests of this run
    gets,          \* HTTP requests issued in this run
    exit_code,     \* what main() returned, -1 before it returns
    edits,         \* changes made to the environment so far
    last_run,      \* results and exit code of the run before this one, when
                   \* the one change since was the removal of a required file
    last_edit      \* that removal

vars == <<fs, server, HAS_REQUESTS, pc, results, raised, printed, gets,
          exit_code, edits, last_run, last_edit>>

\* The names of main()'s tests list, in order.
tests ==
    <<"Local Files", "Metadata Structure", "GeoJSON Files", "Sample Tiles",
      "Tile Count", "Web Server">>

\* tests[i][1](): the call of the i-th registered function.
CallTest(i, tree, has_requests, srv, stat_raises) ==
    CASE i = 1 -> test_local_files(tree)
      [] i = 2 -> test_metadata_structure(tree)
      [] i = 3 -> test_geojson_files(tree)
      [] i = 4 -> test_sample_tiles(tree)
      [] i = 5 -> count_tiles(tree, stat_raises)
      [] i = 6 -> test_web_server(has_requests, srv)

GuardedUncaught(outcome) ==
    [result |-> outcome.ret, propagates |-> outcome.raised]

\* The try / except around the call: the result appended to results, and
\* whether the exception leaves main().
Guarded(outcome) ==
    IF outcome.raised
    THEN [result |-> PyFalse, propagates |-> FALSE]
    ELSE [result |-> outcome.ret, propagates |-> FALSE]

ExitCodeIgnoringSkips(res) ==
    LET passed == Cardinality({i \in 1..Len(res) : res[i].result = PyTrue})
        total  == Cardinality({i \in 1..Len(res) : res[i].result # PyNone})
    IN  IF passed * 100 = 100 * total THEN 0
        ELSE IF passed * 100 >= 80 * total THEN 1
        ELSE 2

\* The summary loop and the exit code.  success_rate = (passed / total) * 100
\* is compared as a ratio: passed * 100 against 100 * total and 80 * total.
ExitCode(res) ==
    LET passed == Cardinality({i \in 1..Len(res) : res[i].result = PyTrue})
        total  == Len(res)
    IN  IF passed * 100 = 100 * total THEN 0
        ELSE IF passed * 100 >= 80 * total THEN 1
        ELSE 2

NoRun  == [results |-> <<>>, exit_code |-> -1]
NoEdit == [op |-> "none", path |-> ""]

Init ==
    /\ fs = GoodTree
    /\ server \in ServerStates
    /\ HAS_REQUESTS \in BOOLEAN
    /\ pc = "ready"
    /\ results = <<>>
    /\ raised = <<>>
    /\ printed = <<>>
    /\ gets = 0
    /\ exit_code = -1
    /\ edits = 0
    /\ last_run = NoRun
    /\ last_edit = NoEdit

\* The script is started.  The import at the top of the module has already
\* fixed HAS_REQUESTS for this and every later run of the installation.
Start ==
    /\ pc \in {"ready", "done"}
    /\ pc' = "loop"
    /\ results' = <<>>
    /\ raised' = <<>>
    /\ printed' = <<>>
    /\ gets' = 0
    /\ exit_code' = -1
    /\ IF pc = "done"
       THEN last_run' = NoRun /\ last_edit' = NoEdit
       ELSE UNCHANGED <<last_run, last_edit>>
    /\ UNCHANGED <<fs, server, HAS_REQUESTS, edits>>

\* One iteration of "for test_name, test_func in tests".
RunTest ==
    /\ pc = "loop"
    /\ Len(results) < Len(tests)
    /\ \E stat_raises \in BOOLEAN :
         LET i       == Len(results) + 1
             outcome == CallTest(i, fs, HAS_REQUESTS, server, stat_raises)
             guarded == Guarded(outcome)
         IN  /\ printed' = printed \o outcome.lines
             /\ gets' = gets + outcome.gets
             /\ IF guarded.propagates
                THEN pc' = "aborted" /\ UNCHANGED <<results, raised>>
                ELSE /\ results' = Append(results,
                                     [name |-> tests[i], result |-> guarded.result])
                     /\ raised' = Append(raised, outcome.raised)
                     /\ pc' = pc
    /\ UNCHANGED <<fs, server, HAS_REQUESTS, exit_code, edits, last_run, last_edit>>

\* The summary after the loop, and the return.
Summarize ==
    /\ pc = "loop"
    /\ Len(results) = Len(tests)
    /\ exit_code' = ExitCode(results)
    /\ pc' = "done"
    /\ UNCHANGED <<fs, server, HAS_REQUESTS, results, raised, printed, gets,
                   edits, last_run, last_edit>>

(***************************************************************************)
(* The environment between runs: files are removed or rewritten, the tile  *)
(* tree is pruned, docs/ loses or regains its search permission.           *)
(***************************************************************************)
FormatValues == {StrVal(<<"p", "b", "f">>), StrVal(<<"m", "v", "t">>)}

MinZoomValues ==
    {Absent, Null, IntVal(4), IntVal(3), FloatVal(45), StrVal(<<"4">>),
     StrVal(<<"a", "b", "c">>)}

MaxZoomValues == {Null, IntVal(10), IntVal(9)}

JsonValues ==
    { JsonField("absent", "absent", <<>>),
      JsonField("garbage", "absent", <<>>),
      JsonField("object", "absent", <<>>),
      JsonField("object", "number", <<>>),
      JsonField("object", "list", <<LayerObj(ExpectedLayerId)>>),
      JsonField("object", "list", <<LayerObj("other_layer"), LayerObj(ExpectedLayerId)>>),
      JsonField("object", "list", <<LayerString>>) }

KeyValues(key) ==
    CASE key = "name"    -> BOOLEAN
      [] key = "format"  -> FormatValues
      [] key = "minzoom" -> MinZoomValues
      [] key = "maxzoom" -> MaxZoomValues
      [] key = "json"    -> JsonValues

MetadataKeys == {"name", "format", "minzoom", "maxzoom", "json"}

Edit(op, path) == [op |-> op, path |-> path]

\* What every change does to the bookkeeping: the process of the finished
\* run is gone; its report is kept for comparison with the next run when the
\* change removes a required file.
Changed(e) ==
    /\ pc \in {"ready", "done"}
    /\ edits < MaxEdits
    /\ edits' = edits + 1
    /\ pc' = "ready"
    /\ IF pc = "done" /\ e.op = "remove"
       THEN last_run' = [results |-> results, exit_code |-> exit_code]
            /\ last_edit' = e
       ELSE last_run' = NoRun /\ last_edit' = NoEdit
    /\ results' = <<>>
    /\ raised' = <<>>
    /\ printed' = <<>>
    /\ gets' = 0
    /\ exit_code' = -1
    /\ UNCHANGED <<server, HAS_REQUESTS>>

RemoveFile(p) ==
    /\ FileState(fs, p) # "missing"
    /\ fs' = CASE p = IndexHtml    -> [fs EXCEPT !.index = FALSE]
               [] p = MetadataJson -> [fs EXCEPT !.meta = [st |-> "missing", doc |-> GoodDoc]]
               [] OTHER            -> [fs EXCEPT !.geo[p] = "missing"]
    /\ Changed(Edit("remove", p))

WriteGeoJson(p, st) ==
    /\ fs.geo[p] # st
    /\ fs' = [fs EXCEPT !.geo[p] = st]
    /\ Changed(Edit("write", p))

WriteMetadata(st) ==
    /\ fs.tilesDir
    /\ fs.meta # [st |-> st, doc |-> GoodDoc]
    /\ fs' = [fs EXCEPT !.meta = [st |-> st, doc |-> GoodDoc]]
    /\ Changed(Edit("write", MetadataJson))

SetMetadataKey(key, value) ==
    /\ fs.meta.st = "object"
    /\ fs.meta.doc[key] # value
    /\ fs' = [fs EXCEPT !.meta.doc[key] = value]
    /\ Changed(Edit("write", MetadataJson))

RemoveTile(t) ==
    /\ t \in fs.tiles
    /\ fs' = [fs EXCEPT !.tiles = @ \ {t}]
    /\ Changed(Edit("prune", t.path))

RemoveAllTiles ==
    /\ fs.tiles # {}
    /\ fs' = [fs EXCEPT !.tiles = {}]
    /\ Changed(Edit("prune", "docs/tiles_catchments/*"))

RemoveTilesDir ==
    /\ fs.tilesDir
    /\ fs' = [fs EXCEPT !.tilesDir = FALSE, !.tiles = {},
                        !.meta = [st |-> "missing", doc |-> GoodDoc]]
    /\ Changed(Edit("prune", "docs/tiles_catchments"))

Chmod ==
    /\ fs' = [fs EXCEPT !.access = ~@]
    /\ Changed(Edit("chmod", "docs"))

Next ==
    \/ Start
    \/ RunTest
    \/ Summarize
    \/ \E p \in SeqRange(required_files) : RemoveFile(p)
    \/ \E p \in SeqRange(geojson_files), st \in GeoStates \ {"missing", "unreadable"} :
           WriteGeoJson(p, st)
    \/ \E st \in {"garbage", "array", "object"} : WriteMetadata(st)
    \/ \E key \in MetadataKeys : \E value \in KeyValues(key) :
           SetMetadataKey(key, value)
    \/ \E t \in AllTiles : RemoveTile(t)
    \/ RemoveAllTiles
    \/ RemoveTilesDir
    \/ Chmod

Spec == Init /\ [][Next]_vars

(***************************************************************************)
(* Properties.                                                             *)
(***************************************************************************)
Returned == pc = "done"

ResultOf(i) == results[i].result

Passes(res) == Cardinality({i \in 1..Len(res) : res[i].result = PyTrue})

AllPass(res) == \A i \in 1..Len(res) : res[i].result = PyTrue

\* The lines a test printed in this run.
LinesOf(check) == SelectSeq(printed, LAMBDA l : l.check = check)

\* C1: whatever the six results are, main() returns 0 when every check
\* passed, 1 when at least 80% but not all of the checks run passed, and 2
\* when fewer than 80% passed.
ExitCodeFollowsPassRate ==
    Returned =>
        LET passed == Passes(results)
            total  == Len(results)
        IN  /\ exit_code \in {0, 1, 2}
            /\ exit_code = 0 <=> passed = total
            /\ exit_code = 1 <=> (passed < total /\ 5 * passed >= 4 * total)
            /\ exit_code = 2 <=> 5 * passed < 4 * total

ExitCodeWitness ==
    /\ Returned
    /\ Passes(results) = 5
    /\ ResultOf(6) = PyNone
    /\ exit_code = 1

\* C2: the six checks run in the order Local Files, Metadata Structure,
\* GeoJSON Files, Sample Tiles, Tile Count, Web Server; a check that raises is
\* recorded as a failure, main() is never left by the exception, and the
\* finished report holds one result per check, in that order.
EveryTestRunsInOrder ==
    LET order == <<"Local Files", "Metadata Structure", "GeoJSON Files",
                   "Sample Tiles", "Tile Count", "Web Server">>
    IN  /\ pc # "aborted"
        /\ Len(results) <= Len(order)
        /\ Len(raised) = Len(results)
        /\ \A i \in 1..Len(results) :
              /\ results[i].name = order[i]
              /\ raised[i] => ResultOf(i) = PyFalse
        /\ Returned => /\ Len(results) = Len(order)
                       /\ LinesOf("Web Server") # <<>>

RaisingTestWitness ==
    /\ Returned
    /\ raised[5]
    /\ ResultOf(5) = PyFalse
    /\ results[6].name = "Web Server"

\* C3: every recorded result is pass, fail or skip; only the Web Server check
\* skips, and only when requests is absent or the server cannot be reached;
\* a missing required file, sample tile or tile directory is a fail.
SkipOnlyForUnavailableService ==
    /\ \A i \in 1..Len(results) :
          /\ ResultOf(i) \in {PyTrue, PyFalse, PyNone}
          /\ ResultOf(i) = PyNone =>
                /\ results[i].name = "Web Server"
                /\ ~HAS_REQUESTS \/ server.answer \in {"refused", "timeout"}
    /\ (Len(results) >= 1 /\ (~fs.index \/ fs.meta.st = "missing"
                              \/ \E p \in DOMAIN fs.geo : fs.geo[p] = "missing"))
          => ResultOf(1) = PyFalse
    /\ (Len(results) >= 4 /\ \E i \in 1..Len(sample_tiles) : sample_tiles[i] \notin fs.tiles)
          => ResultOf(4) = PyFalse
    /\ (Len(results) >= 5 /\ ~fs.tilesDir) => ResultOf(5) = PyFalse

MissingDirectoryWitness ==
    /\ Returned
    /\ ~fs.tilesDir
    /\ ResultOf(5) = PyFalse
    /\ ResultOf(6) = PyNone

\* C4: without the requests library the Web Server check is a skip, and a
\* run whose other five checks pass still returns exit code 0.
SkipDoesNotPenalize ==
    (Returned /\ ~HAS_REQUESTS) =>
        /\ ResultOf(6) = PyNone
        /\ (\A i \in 1..5 : ResultOf(i) = PyTrue) => exit_code = 0

\* Everything the five filesystem checks look at is in place.
AllInPlace ==
    /\ fs.access /\ fs.index /\ fs.tilesDir
    /\ fs.meta.st = "object"
    /\ fs.meta.doc.name
    /\ fs.meta.doc.format = StrVal(<<"p", "b", "f">>)
    /\ fs.meta.doc.minzoom = IntVal(4)
    /\ fs.meta.doc.maxzoom = IntVal(10)
    /\ fs.meta.doc.json.k = "object"
    /\ fs.meta.doc.json.vl.k = "list"
    /\ Len(fs.meta.doc.json.vl.items) > 0
    /\ fs.meta.doc.json.vl.items[1] = LayerObj(ExpectedLayerId)
    /\ \A p \in DOMAIN fs.geo : fs.geo[p] \in {"FeatureCollection", "Feature"}
    /\ SeqRange(sample_tiles) \subseteq fs.tiles

\* C5: with every required path present and the metadata fields as expected,
\* the report is 100% pass and main() returns 0, whether the Web Server check
\* passes or is skipped.
AllInPlaceExitsZero ==
    (Returned /\ AllInPlace /\ ResultOf(6) \in {PyTrue, PyNone}) =>
        /\ Passes(results) = Len(results)
        /\ exit_code = 0

\* The metadata document of the end-to-end scenario: format, minzoom, maxzoom
\* and json, and no other key.
ScenarioDoc == [GoodDoc EXCEPT !.name = FALSE]

InScenario ==
    /\ fs.access /\ fs.index /\ fs.tilesDir
    /\ fs.meta = [st |-> "object", doc |-> ScenarioDoc]
    /\ \A p \in DOMAIN fs.geo : fs.geo[p] = "FeatureCollection"
    /\ SeqRange(sample_tiles) \subseteq fs.tiles

\* C6 as stated: in the end-to-end scenario every check passes and main()
\* returns 0.
ScenarioAllPass ==
    (Returned /\ InScenario) => (AllPass(results) /\ exit_code = 0)

\* C6 as amended: in the end-to-end scenario Local Files, GeoJSON Files,
\* Sample Tiles and Tile Count pass, Metadata Structure fails on its
\* 'Has name field' line alone, and main() returns 1 when the Web Server check
\* passes and 2 otherwise.
ScenarioFailsOnName ==
    (Returned /\ InScenario) =>
        /\ \A i \in {1, 3, 4, 5} : ResultOf(i) = PyTrue
        /\ ResultOf(2) = PyFalse
        /\ LET lines == LinesOf("Metadata Structure")
           IN  /\ Len(lines) = 6
               /\ \A i \in 1..Len(lines) : lines[i].ok <=> lines[i].item # "name"
        /\ exit_code = IF ResultOf(6) = PyTrue THEN 1 ELSE 2

ScenarioWitness ==
    /\ Returned
    /\ InScenario
    /\ ResultOf(6) = PyTrue
    /\ exit_code = 1

\* This run follows an all-pass run from which one required file was removed.
AfterRemoval ==
    /\ Returned
    /\ last_edit.op = "remove"
    /\ last_run # NoRun
    /\ AllPass(last_run.results)

\* C7 as stated: removing one required file from an all-pass layout flips
\* only Local Files to fail, leaves every other result unchanged, and makes
\* the exit code at least 1.
RemovalFlipsOnlyLocalFiles ==
    AfterRemoval =>
        /\ ResultOf(1) = PyFalse
        /\ \A i \in 2..Len(results) : ResultOf(i) = last_run.results[i].result
        /\ exit_code >= 1

\* C7 as amended: removing one required file from an all-pass layout flips
\* Local Files to fail, and also Metadata Structure when the file is
\* metadata.json, and also GeoJSON Files when it is one of the three GeoJSON
\* files; every other result is unchanged and the exit code is at least 1.
RemovalFlipsLocalFilesAndReader ==
    AfterRemoval =>
        /\ ResultOf(1) = PyFalse
        /\ ResultOf(2) = IF last_edit.path = "docs/tiles_catchments/metadata.json"
                         THEN PyFalse ELSE last_run.results[2].result
        /\ ResultOf(3) = IF last_edit.path \in
                               {"docs/data_web/turkey_provinces_web.geojson",
                                "docs/data_web/hydrorivers_tr_web_final.geojson",
                                "docs/data_web/hydrolakes_tr_web.geojson"}
                         THEN PyFalse ELSE last_run.results[3].result
        /\ \A i \in 4..Len(results) : ResultOf(i) = last_run.results[i].result
        /\ exit_code >= 1

RemovalWitness ==
    /\ AfterRemoval
    /\ last_edit.path = "docs/tiles_catchments/metadata.json"
    /\ ResultOf(2) = PyFalse
    /\ exit_code = 2

\* C8: the Web Server check passes exactly when the one GET is answered with
\* status 200; it is a skip without the requests library, a fail for any other
\* status, and a skip with a warning line when the connection is refused or
\* times out; no run issues more than one request.
WebServerContract ==
    /\ gets <= 1
    /\ ~HAS_REQUESTS => gets = 0
    /\ Len(results) = 6 =>
          /\ ResultOf(6) = PyTrue <=>
                (HAS_REQUESTS /\ server.answer = "response" /\ server.status_code = 200)
          /\ ~HAS_REQUESTS => ResultOf(6) = PyNone
          /\ (HAS_REQUESTS /\ server.answer = "response" /\ server.status_code # 200)
                => ResultOf(6) = PyFalse
          /\ (HAS_REQUESTS /\ server.answer \in {"refused", "timeout"})
                => /\ ResultOf(6) = PyNone
                   /\ LinesOf("Web Server") =
                          <<Line("Web Server", "", "not accessible", FALSE)>>
                   /\ gets = 1

RefusedConnectionWitness ==
    /\ Returned
    /\ HAS_REQUESTS
    /\ server.answer = "refused"
    /\ ResultOf(6) = PyNone
    /\ gets = 1

\* The metadata file holds the expected document except for its minzoom.
OnlyMinZoomDiffers ==
    /\ fs.access
    /\ fs.meta.st = "object"
    /\ fs.meta.doc.minzoom # IntVal(4)
    /\ fs.meta.doc = [GoodDoc EXCEPT !.minzoom = fs.meta.doc.minzoom]

\* C9: when minzoom is anything but 4 and the other fields are as expected,
\* all six sub-check lines are reported and only the min-zoom line is failed.
OnlyMinZoomLineFails ==
    (Len(results) >= 2 /\ OnlyMinZoomDiffers) =>
        LET lines == LinesOf("Metadata Structure")
        IN  /\ Len(lines) = 6
            /\ \A i \in 1..Len(lines) : lines[i].ok <=> lines[i].item # "minzoom"

\* A file the GeoJSON check accepts: it opens, parses, and its top-level type
\* is FeatureCollection or Feature.
GoodGeoJson(p) == fs.access /\ fs.geo[p] \in {"FeatureCollection", "Feature"}

\* C10: the GeoJSON check examines all three files in list order whatever
\* the earlier ones hold, reports each file that does not open, parse or carry
\* a permitted type as invalid, and passes exactly when all three are good.
GeoJsonExaminesEveryFile ==
    Len(results) >= 3 =>
        LET lines == LinesOf("GeoJSON Files")
            order == <<"docs/data_web/turkey_provinces_web.geojson",
                       "docs/data_web/hydrorivers_tr_web_final.geojson",
                       "docs/data_web/hydrolakes_tr_web.geojson">>
        IN  /\ Len(lines) = 3
            /\ \A i \in 1..3 : /\ lines[i].item = order[i]
                               /\ lines[i].ok <=> GoodGeoJson(order[i])
            /\ ResultOf(3) = PyTrue <=> \A i \in 1..3 : GoodGeoJson(order[i])
            /\ ResultOf(3) \in {PyTrue, PyFalse}

InvalidFirstFileWitness ==
    /\ Returned
    /\ fs.geo[Provinces] = "garbage"
    /\ fs.geo[Rivers] = "missing"
    /\ fs.geo[Lakes] = "FeatureCollection"
    /\ LinesOf("GeoJSON Files")[3].ok
    /\ ResultOf(3) = PyFalse

====
